---- MODULE Spec2Model ----
(***************************************************************************)
(* Model of the Smart-Clinic scheduling engine,                            *)
(* backend/services/queueService.js (class QueueService).                  *)
(*                                                                         *)
(* MongoDB is the source of truth: `users' and `staff' are the two         *)
(* collections.  `heap' is the in-memory heap-js max-heap (its backing     *)
(* array).  Time is counted in whole minutes (`now'); Date values are      *)
(* minute numbers, a missing Date is NoTime, a missing ObjectId is NoId.   *)
(* Every action is one complete call of an engine method, run to its end.  *)
(* The two collections hold at most two documents each (UserOrder,         *)
(* StaffOrder); `calls' counts the engine calls made since startup and     *)
(* `overridden' remembers the users that were emergency-overridden and     *)
(* have been active ever since.                                            *)
(***************************************************************************)
EXTENDS Integers, Sequences, FiniteSets, TLC

\* ---------------------------------------------------------------- bounds
\* the last minute of the clock, and the number of engine calls explored
\* after the service has started
MaxNow == 1
MaxCalls == 3

\* entries pushed by one rebuild of the index studied on its own
MaxIndex == 4

\* the ObjectIds of the two collections, in storage (creation) order
UserOrder == <<1, 2>>
StaffOrder == <<1, 2>>
UserIds == {UserOrder[i] : i \in 1..Len(UserOrder)}
StaffIds == {StaffOrder[i] : i \in 1..Len(StaffOrder)}
NoId == 0
NoTime == 0 - 1

\* ------------------------------------------------------ program constants
PRIORITY_WEIGHT == 10
WAITING_TIME_WEIGHT == 2
STAFF_WORKLOAD_WEIGHT == 1
EMERGENCY_SCORE == 9999
DEFAULT_SERVICE_TIME == 15
DEFAULT_PRIORITY == 3

VisitTypes == {"emergency", "regular", "follow_up"}

\* a bonus table without entries
NO_BONUS(v) == 0

VISIT_TYPE_BONUS(v) ==
    CASE v = "emergency" -> 20
      [] v = "regular" -> 0
      [] v = "follow_up" -> 0 - 5
      [] OTHER -> 0

Statuses ==
    {"inactive", "waiting", "scheduled", "serving", "completed",
     "cancelled", "no-show", "booked", "follow_up"}

\* input domains of the requests
PriorityInputs == {3}
PriorityUpdates == {1, 6}
ServiceTimeInputs == {10, 20}
CreateStatusInputs == {"inactive", "waiting"}
\* the statuses that only the generic status update stores
StatusInputs == {"serving", "booked"}
\* availability windows <<start_time, end_time>>, each <<HH, MM>>
WindowInputs == { << <<0, 0>>, <<23, 59>> >>, << <<0, 1>>, <<0, 1>> >> }

VARIABLES users, staff, heap, now, overridden, calls, result, procs, whole

\* users, staff : the stored collections; heap : this.heap; now : the clock;
\* overridden, calls : bookkeeping of the calls made so far;
\* result : the value returned by the function under study, <<>> before;
\* procs : the requests in flight, each at one of its await points;
\* whole : the heap as the last complete push or rebuild left it
vars == <<users, staff, heap, now, overridden, calls, result, procs, whole>>

\* what the one-call-at-a-time machine never touches
aux == <<result, procs, whole>>

\* ------------------------------------------------------------- documents
NoUser ==
    [exists |-> FALSE, status |-> "inactive", visit_type |-> "regular",
     priority_level |-> DEFAULT_PRIORITY, estimated_service_time |-> DEFAULT_SERVICE_TIME,
     arrival_time |-> NoTime, queue_entry_time |-> NoTime,
     assigned_staff_id |-> NoId, preferred_doctor |-> NoId, score |-> 0]

NoStaff ==
    [exists |-> FALSE, deleted |-> FALSE, active |-> FALSE,
     start_time |-> <<0, 0>>, end_time |-> <<0, 0>>,
     queue |-> <<>>, workload |-> 0]

\* an a || b that would always take the fallback
Fallback(a, b) == b

\* the a || b of a number: 0 is falsy
OrElse(a, b) == IF a = 0 THEN b ELSE a

\* the lesser of two numbers
Min(a, b) == IF a <= b THEN a ELSE b

Max(a, b) == IF a >= b THEN a ELSE b

\* a score function that would return the stored score
StoredScore(u, t) == u.score

\* ---------------------------------------------------------------- scoring
\* _calculateScore(user) evaluated at Date.now() = t
_calculateScore(u, t) ==
    LET arrival == IF u.arrival_time = NoTime THEN t ELSE u.arrival_time
        waitMinutes == t - arrival
        typeBonus == VISIT_TYPE_BONUS(u.visit_type)
    IN  PRIORITY_WEIGHT * OrElse(u.priority_level, DEFAULT_PRIORITY)
          + WAITING_TIME_WEIGHT * waitMinutes
          - STAFF_WORKLOAD_WEIGHT * 0
          + typeBonus

\* ------------------------------------------------------------------- heap
\* comparator of the heap: (a, b) => b.score - a.score
Compare(a, b) == b.score - a.score

Swap(arr, i, j) == [arr EXCEPT ![i] = arr[j], ![j] = arr[i]]

\* heap-js _sortNodeUp on a 1-based array: parent of i is i \div 2
RECURSIVE SortNodeUp(_, _)
SortNodeUp(arr, i) ==
    IF i > 1 /\ Compare(arr[i \div 2], arr[i]) > 0
    THEN SortNodeUp(Swap(arr, i, i \div 2), i \div 2)
    ELSE arr

\* heap-js push that would drop the entry
HeapKeep(h, entry) == h

\* this.heap.push(entry)
HeapPush(h, entry) == SortNodeUp(Append(h, entry), Len(h) + 1)

\* an insertion that would put x before the elements it ties with
RECURSIVE InsertBeforeTies(_, _)
InsertBeforeTies(s, x) ==
    IF s = <<>> THEN <<x>>
    ELSE IF Compare(Head(s), x) >= 0
         THEN <<x>> \o s
         ELSE <<Head(s)>> \o InsertBeforeTies(Tail(s), x)

\* insertion of x into a sequence sorted by (a, b) => b.score - a.score,
\* after every element it does not strictly precede (stable)
RECURSIVE InsertSorted(_, _)
InsertSorted(s, x) ==
    IF s = <<>> THEN <<x>>
    ELSE IF Compare(Head(s), x) > 0
         THEN <<x>> \o s
         ELSE <<Head(s)>> \o InsertSorted(Tail(s), x)

\* this.heap.toArray().slice().sort((a, b) => b.score - a.score)
RECURSIVE SortedHeap(_)
SortedHeap(h) ==
    IF h = <<>> THEN <<>>
    ELSE InsertSorted(SortedHeap(SubSeq(h, 1, Len(h) - 1)), h[Len(h)])

\* sorted.findIndex(e => e.user_id === userId) + 1   (0 when absent)
Position(h, p) ==
    LET sorted == SortedHeap(h)
        hits == {i \in 1..Len(sorted) : sorted[i].user_id = p}
    IN  IF hits = {} THEN 0 ELSE CHOOSE i \in hits : \A j \in hits : i <= j

\* a rebuild filter that would also keep patients being served
ActiveStatusesAndServing == {"waiting", "scheduled", "serving"}

\* filter  { status: { $in: ['waiting', 'scheduled'] } }
ActiveStatuses == {"waiting", "scheduled"}

\* User.find({status: {$in: [...]}}) : ids in storage (creation) order
ActiveUsers(us) ==
    SelectSeq(UserOrder,
              LAMBDA p : us[p].exists /\ us[p].status \in ActiveStatuses)

RECURSIVE PushStored(_, _, _)
PushStored(h, ids, us) ==
    IF ids = <<>> THEN h
    ELSE PushStored(HeapPush(h, [user_id |-> Head(ids),
                                 score |-> OrElse(us[Head(ids)].score, 0)]),
                    Tail(ids), us)

\* _rebuildHeap(): a new heap holding the persisted score of every active user
_rebuildHeap(us) == PushStored(<<>>, ActiveUsers(us), us)

RECURSIVE PushComputed(_, _, _, _)
PushComputed(h, ids, us, t) ==
    IF ids = <<>> THEN h
    ELSE PushComputed(HeapPush(h, [user_id |-> Head(ids),
                                   score |-> _calculateScore(us[Head(ids)], t)]),
                      Tail(ids), us, t)

\* init(): a new heap holding a freshly computed score of every active user
init(us, t) == PushComputed(<<>>, ActiveUsers(us), us, t)

\* ---------------------------------------------------------- staff helpers
\* Staff.find({active: true}) : ids in storage (creation) order
ActiveStaff(st) ==
    SelectSeq(StaffOrder,
              LAMBDA s : st[s].exists /\ st[s].active)

\* "HH:MM".split(':').map(Number), then sh * 60 + sm
MinuteOfDay(hm) == hm[1] * 60 + hm[2]

\* now.getHours() * 60 + now.getMinutes()
CurrentMin(t) == ((t \div 60) % 24) * 60 + (t % 60)

InWindow(s, t) ==
    CurrentMin(t) >= MinuteOfDay(s.start_time) /\ CurrentMin(t) <= MinuteOfDay(s.end_time)

\* a loop that would let a later staff member of equal workload win
RECURSIVE BestInWindowLast(_, _, _, _)
BestInWindowLast(ids, st, t, best) ==
    IF ids = <<>> THEN best
    ELSE LET s == Head(ids)
             better == InWindow(st[s], t)
                       /\ (best = NoId \/ st[s].workload <= st[best].workload)
         IN  BestInWindowLast(Tail(ids), st, t, IF better THEN s ELSE best)

\* the for loop of _findBestStaff: best in-window staff, strictly lower workload wins
RECURSIVE BestInWindow(_, _, _, _)
BestInWindow(ids, st, t, best) ==
    IF ids = <<>> THEN best
    ELSE LET s == Head(ids)
             better == InWindow(st[s], t)
                       /\ (best = NoId \/ st[s].workload < st[best].workload)
         IN  BestInWindow(Tail(ids), st, t, IF better THEN s ELSE best)

\* a fallback that would take the first listed staff member unsorted
FirstListed(ids, st, best) == IF ids = <<>> THEN best ELSE Head(ids)

\* allStaff.sort((a, b) => a.workload - b.workload)[0] : first of the lowest workload
RECURSIVE LowestWorkload(_, _, _)
LowestWorkload(ids, st, best) ==
    IF ids = <<>> THEN best
    ELSE LET s == Head(ids)
             better == best = NoId \/ st[s].workload < st[best].workload
         IN  LowestWorkload(Tail(ids), st, IF better THEN s ELSE best)

\* _findBestStaff() at time t: a staff id, or NoId
_findBestStaff(st, t) ==
    LET allStaff == ActiveStaff(st)
        best == BestInWindow(allStaff, st, t, NoId)
    IN  IF best = NoId /\ Len(allStaff) > 0
        THEN LowestWorkload(allStaff, st, NoId)
        ELSE best

\* _removeFromStaffQueue(user) for user id p with in-memory document u:
\* the staff collection afterwards, and whether user.assigned_staff_id was
\* set to null on the in-memory document
_removeFromStaffQueue(st, p, u) ==
    LET staffId == u.assigned_staff_id IN
    IF staffId = NoId THEN [staff |-> st, cleared |-> FALSE]
    ELSE IF ~st[staffId].exists THEN [staff |-> st, cleared |-> FALSE]
    ELSE LET old == st[staffId]
             queue == SelectSeq(old.queue, LAMBDA id : id # p)
             removed == Len(old.queue) - Len(queue)
             workload ==
                 IF removed > 0
                 THEN Max(0, old.workload
                             - OrElse(u.estimated_service_time, DEFAULT_SERVICE_TIME))
                 ELSE old.workload
         IN  [staff |-> [st EXCEPT ![staffId].queue = queue,
                                   ![staffId].workload = workload],
              cleared |-> TRUE]

\* ------------------------------------------------------ engine operations
\* Each operation maps the stored state (users, staff, heap) at time t to
\* the state when the call returns, with ok = FALSE and the error kind
\* when it throws.
Result(us, st, h, ok, err) ==
    [users |-> us, staff |-> st, heap |-> h, ok |-> ok, err |-> err]

\* a schedule guard that would let completed patients through
TerminalStatusesLessCompleted == {"cancelled", "no-show"}

TerminalStatuses == {"cancelled", "no-show", "completed"}

scheduleUser(us, st, h, p, t) ==
    IF ~us[p].exists THEN Result(us, st, h, FALSE, "NotFound")
    ELSE IF us[p].status \in TerminalStatuses
    THEN Result(us, st, h, FALSE, "InvalidTransition")
    ELSE LET s == _findBestStaff(st, t) IN
         IF s = NoId THEN Result(us, st, h, FALSE, "NoEligibleStaff")
         ELSE LET user == [us[p] EXCEPT !.assigned_staff_id = s,
                                        !.status = "scheduled",
                                        !.score = _calculateScore(us[p], t)]
                  us2 == [us EXCEPT ![p] = user]
                  st2 == [st EXCEPT ![s].queue = Append(@, p),
                                    ![s].workload = @ + user.estimated_service_time]
              IN  Result(us2, st2, _rebuildHeap(us2), TRUE, "")

assignDoctor(us, st, h, p, staffId, t) ==
    IF ~us[p].exists THEN Result(us, st, h, FALSE, "NotFound")
    ELSE LET st1 == _removeFromStaffQueue(st, p, us[p]).staff IN
         IF ~st1[staffId].exists THEN Result(us, st1, h, FALSE, "NotFound")
         ELSE LET freshUser == [us[p] EXCEPT !.assigned_staff_id = staffId,
                                             !.status = "scheduled",
                                             !.score = _calculateScore(us[p], t)]
                  us2 == [us EXCEPT ![p] = freshUser]
                  alreadyInQueue == \E i \in 1..Len(st1[staffId].queue) :
                                        st1[staffId].queue[i] = p
                  st2 == IF alreadyInQueue THEN st1
                         ELSE [st1 EXCEPT
                                 ![staffId].queue = Append(@, p),
                                 ![staffId].workload =
                                     @ + OrElse(freshUser.estimated_service_time,
                                                DEFAULT_SERVICE_TIME)]
              IN  Result(us2, st2, _rebuildHeap(us2), TRUE, "")

\* a booking guard that would also accept patients being served
BookableStatusesAndServing == {"inactive", "completed", "cancelled", "serving"}

BookableStatuses == {"inactive", "completed", "cancelled"}

bookAppointment(us, st, h, p, visitType, preferredDoctorId, t) ==
    IF ~us[p].exists THEN Result(us, st, h, FALSE, "NotFound")
    ELSE IF us[p].status \notin BookableStatuses
    THEN Result(us, st, h, FALSE, "InvalidTransition")
    ELSE LET u1 == [us[p] EXCEPT
                      !.arrival_time = t,
                      !.queue_entry_time = t,
                      !.visit_type = visitType,
                      !.status = "waiting",
                      !.priority_level = IF visitType = "emergency" THEN 5 ELSE @,
                      !.preferred_doctor =
                          IF preferredDoctorId # NoId THEN preferredDoctorId ELSE @]
             user == [u1 EXCEPT !.score = _calculateScore(u1, t)]
             us1 == [us EXCEPT ![p] = user]
             h1 == HeapPush(h, [user_id |-> p, score |-> user.score])
             doctorToAssign == IF preferredDoctorId # NoId THEN preferredDoctorId
                               ELSE user.preferred_doctor
         IN  IF doctorToAssign # NoId
             THEN LET a == assignDoctor(us1, st, h1, p, doctorToAssign, t) IN
                  IF a.ok THEN a
                  ELSE IF visitType = "emergency"
                  THEN LET r == scheduleUser(a.users, a.staff, a.heap, p, t)
                       IN  Result(r.users, r.staff, r.heap, TRUE, "")
                  ELSE Result(a.users, a.staff, a.heap, TRUE, "")
             ELSE IF visitType = "emergency"
             THEN LET r == scheduleUser(us1, st, h1, p, t)
                  IN  Result(r.users, r.staff, r.heap, TRUE, "")
             ELSE Result(us1, st, h1, TRUE, "")

\* an updateStatus that would take the patient out of the staff queue on
\* every change of status
updateStatusLeavingQueue(us, st, h, p, status) ==
    IF ~us[p].exists THEN Result(us, st, h, FALSE, "NotFound")
    ELSE LET us2 == [us EXCEPT ![p].status = status]
         IN  Result(us2, _removeFromStaffQueue(st, p, us2[p]).staff, _rebuildHeap(us2), TRUE, "")

updateStatus(us, st, h, p, status) ==
    IF ~us[p].exists THEN Result(us, st, h, FALSE, "NotFound")
    ELSE LET oldStatus == us[p].status
             us2 == [us EXCEPT ![p].status = status]
             activeStatuses == {"waiting", "scheduled", "serving"}
             st2 == IF oldStatus \in activeStatuses /\ status \notin activeStatuses
                       /\ us[p].assigned_staff_id # NoId
                    THEN _removeFromStaffQueue(st, p, us2[p]).staff
                    ELSE st
         IN  Result(us2, st2, _rebuildHeap(us2), TRUE, "")

\* User.updateMany({_id: {$in: patientIds}}, {$set: {assigned_staff_id: null,
\* status: 'waiting'}}) followed by the score recalculation of those users
ReturnToPool(us, patientIds, t) ==
    [p \in UserIds |->
        IF us[p].exists /\ (\E i \in 1..Len(patientIds) : patientIds[i] = p)
        THEN LET u == [us[p] EXCEPT !.assigned_staff_id = NoId, !.status = "waiting"]
             IN  [u EXCEPT !.score = _calculateScore(u, t)]
        ELSE us[p]]

deleteStaff(us, st, h, staffId, t) ==
    IF ~st[staffId].exists THEN Result(us, st, h, FALSE, "NotFound")
    ELSE LET patientIds == st[staffId].queue
             us2 == IF Len(patientIds) > 0 THEN ReturnToPool(us, patientIds, t) ELSE us
             st2 == [st EXCEPT ![staffId] = [NoStaff EXCEPT !.deleted = TRUE]]
         IN  Result(us2, st2, _rebuildHeap(us2), TRUE, "")

\* User.find({_id: {$in: patientIds}}): the stored users named in the
\* list, each once, in collection order
Reassigned(us, patientIds) ==
    SelectSeq(UserOrder,
              LAMBDA p : us[p].exists /\ \E i \in 1..Len(patientIds) : patientIds[i] = p)

\* deleteStaff(staffId) when a storage call rejects after updateMany has
\* been applied and `saved' of the rescored patients have been saved (the
\* next u.save() throws): the error propagates to the caller, the staff
\* document is not deleted and the heap is not rebuilt
deleteStaffFailing(us, st, h, staffId, t, saved) ==
    IF ~st[staffId].exists THEN Result(us, st, h, FALSE, "NotFound")
    ELSE LET patientIds == st[staffId].queue
             inQueue(p) == \E i \in 1..Len(patientIds) : patientIds[i] = p
             us1 == [p \in UserIds |->
                       IF us[p].exists /\ inQueue(p)
                       THEN [us[p] EXCEPT !.assigned_staff_id = NoId,
                                          !.status = "waiting"]
                       ELSE us[p]]
             reassigned == Reassigned(us, patientIds)
             us2 == [p \in UserIds |->
                       IF \E i \in 1..Len(reassigned) : i <= saved /\ reassigned[i] = p
                       THEN [us1[p] EXCEPT !.score = _calculateScore(us1[p], t)]
                       ELSE us1[p]]
         IN  Result(us2, st, h, FALSE, "StorageError")

\* an optimizeQueue that would rebuild the heap without rescoring
optimizeQueueUnsaved(us, st, h, t) == Result(us, st, _rebuildHeap(us), TRUE, "")

optimizeQueue(us, st, h, t) ==
    LET us2 == [p \in UserIds |->
                  IF us[p].exists /\ us[p].status \in ActiveStatuses
                  THEN [us[p] EXCEPT !.score = _calculateScore(us[p], t)]
                  ELSE us[p]]
    IN  Result(us2, st, _rebuildHeap(us2), TRUE, "")

cancelUser(us, st, h, p) ==
    IF ~us[p].exists THEN Result(us, st, h, FALSE, "NotFound")
    ELSE LET r == _removeFromStaffQueue(st, p, us[p])
             us2 == [us EXCEPT ![p].status = "cancelled",
                               ![p].assigned_staff_id = IF r.cleared THEN NoId ELSE @]
         IN  Result(us2, r.staff, _rebuildHeap(us2), TRUE, "")

\* a completion that would close every patient sharing the assignment of p
MarkDoneForAll(us, st, h, p, status) ==
    LET us2 == [q \in UserIds |->
                  IF us[q].exists /\ us[q].assigned_staff_id = us[p].assigned_staff_id
                  THEN [us[q] EXCEPT !.status = status]
                  ELSE us[q]]
    IN  Result(us2, st, _rebuildHeap(us2), us[p].exists, "")

\* markCompleted and markNoShow differ only in the status they store
MarkDone(us, st, h, p, status) ==
    IF ~us[p].exists THEN Result(us, st, h, FALSE, "NotFound")
    ELSE LET us2 == [us EXCEPT ![p].status = status]
             st2 == IF us[p].assigned_staff_id # NoId
                    THEN _removeFromStaffQueue(st, p, us2[p]).staff
                    ELSE st
         IN  Result(us2, st2, _rebuildHeap(us2), TRUE, "")

markCompleted(us, st, h, p) == MarkDone(us, st, h, p, "completed")

markNoShow(us, st, h, p) == MarkDone(us, st, h, p, "no-show")

\* a return to the pool that would push a new heap entry, not rebuild
reassignUserPushing(us, st, h, p, t) ==
    IF ~us[p].exists THEN Result(us, st, h, FALSE, "NotFound")
    ELSE LET us2 == [us EXCEPT ![p].status = "waiting",
                               ![p].assigned_staff_id = NoId,
                               ![p].score = _calculateScore(us[p], t)]
         IN  Result(us2, st, HeapPush(h, [user_id |-> p, score |-> us2[p].score]),
                    TRUE, "")

reassignUser(us, st, h, p, t) ==
    IF ~us[p].exists THEN Result(us, st, h, FALSE, "NotFound")
    ELSE LET st2 == IF us[p].assigned_staff_id # NoId
                    THEN _removeFromStaffQueue(st, p, us[p]).staff
                    ELSE st
             us2 == [us EXCEPT ![p].status = "waiting",
                               ![p].assigned_staff_id = NoId,
                               ![p].score = _calculateScore(us[p], t)]
         IN  Result(us2, st2, _rebuildHeap(us2), TRUE, "")

\* an override that would also take the patient out of its staff queue
emergencyOverrideToPool(us, st, h, p) ==
    IF ~us[p].exists THEN Result(us, st, h, FALSE, "NotFound")
    ELSE LET r == _removeFromStaffQueue(st, p, us[p])
             us2 == [us EXCEPT ![p].priority_level = 5,
                               ![p].visit_type = "emergency",
                               ![p].score = EMERGENCY_SCORE,
                               ![p].assigned_staff_id = NoId]
         IN  Result(us2, r.staff, _rebuildHeap(us2), TRUE, "")

emergencyOverride(us, st, h, p) ==
    IF ~us[p].exists THEN Result(us, st, h, FALSE, "NotFound")
    ELSE LET us2 == [us EXCEPT ![p].priority_level = 5,
                               ![p].visit_type = "emergency",
                               ![p].score = EMERGENCY_SCORE]
         IN  Result(us2, st, _rebuildHeap(us2), TRUE, "")

updatePriority(us, st, h, p, newPriority, t) ==
    IF newPriority < 1 \/ newPriority > 5
    THEN Result(us, st, h, FALSE, "ValidationError")
    ELSE IF ~us[p].exists THEN Result(us, st, h, FALSE, "NotFound")
    ELSE LET u == [us[p] EXCEPT !.priority_level = newPriority]
             us2 == [us EXCEPT ![p] = [u EXCEPT !.score = _calculateScore(u, t)]]
         IN  Result(us2, st, _rebuildHeap(us2), TRUE, "")

updateVisitType(us, st, h, p, visitType, t) ==
    IF ~us[p].exists THEN Result(us, st, h, FALSE, "NotFound")
    ELSE LET u == [us[p] EXCEPT !.visit_type = visitType]
             us2 == [us EXCEPT ![p] = [u EXCEPT !.score = _calculateScore(u, t)]]
         IN  Result(us2, st, _rebuildHeap(us2), TRUE, "")

\* the flat per-patient estimate for a patient without staff
FLAT_WAIT_PER_PATIENT == 15

\* the wait loop over staff.queue: service times of the entries before the
\* first occurrence of p (of all entries when p is not in the list)
RECURSIVE WaitAhead(_, _, _)
WaitAhead(queue, p, us) ==
    IF queue = <<>> THEN 0
    ELSE IF Head(queue) = p THEN 0
    ELSE OrElse(us[Head(queue)].estimated_service_time, DEFAULT_SERVICE_TIME)
           + WaitAhead(Tail(queue), p, us)

\* a getUserStatus that would estimate the wait whatever the status is
getUserStatusAnyStatus(us, st, h, p, t) ==
    LET user == us[p]
        position == Position(h, p)
        assigned == user.assigned_staff_id
    IN  [ok |-> user.exists,
         queue_position |-> IF position > 0 THEN position ELSE 0,
         estimated_wait_minutes |->
             IF assigned # NoId
             THEN IF st[assigned].exists THEN WaitAhead(st[assigned].queue, p, us) ELSE 0
             ELSE IF position > 1 THEN (position - 1) * 15 ELSE 0]

\* getUserStatus(userId) at Date.now() = t: the two derived fields of the
\* reply; queue_position 0 stands for null
getUserStatus(us, st, h, p, t) ==
    LET user == us[p]
        position == Position(h, p)
        patientsAhead == Max(0, position - 1)
        rawWait == patientsAhead * FLAT_WAIT_PER_PATIENT
        minutesInQueue ==
            IF user.queue_entry_time # NoTime THEN t - user.queue_entry_time ELSE 0
        estimatedWait ==
            IF user.status \in {"waiting", "scheduled"}
            THEN IF user.assigned_staff_id # NoId
                 THEN IF st[user.assigned_staff_id].exists
                         /\ Len(st[user.assigned_staff_id].queue) > 0
                      THEN WaitAhead(st[user.assigned_staff_id].queue, p, us)
                      ELSE 0
                 ELSE Max(0, rawWait - minutesInQueue)
            ELSE 0
    IN  [ok |-> user.exists,
         queue_position |-> IF position > 0 THEN position ELSE 0,
         estimated_wait_minutes |-> estimatedWait]

\* User.create(...) gives the new document the next id of the collection
NextUserId(us) ==
    IF \A p \in UserIds : us[p].exists THEN NoId
    ELSE CHOOSE p \in UserIds : ~us[p].exists /\ \A q \in 1..(p - 1) : us[q].exists

\* the document addUser stores: User.create(...), scored when it is waiting
CreatedUser(visitType, priority, serviceTime, status, t) ==
    LET created == [NoUser EXCEPT !.exists = TRUE,
                                  !.visit_type = visitType,
                                  !.priority_level = priority,
                                  !.estimated_service_time = serviceTime,
                                  !.arrival_time = t,
                                  !.status = status]
    IN  IF status = "waiting"
        THEN [created EXCEPT !.score = _calculateScore(created, t)]
        ELSE created

addUser(us, st, h, visitType, priority, serviceTime, status, t) ==
    LET p == NextUserId(us)
        user == CreatedUser(visitType, priority, serviceTime, status, t)
        us2 == [us EXCEPT ![p] = user]
    IN  IF status = "waiting"
        THEN Result(us2, st, HeapPush(h, [user_id |-> p, score |-> user.score]), TRUE, "")
        ELSE Result(us2, st, h, TRUE, "")

\* Staff.create(...) gives the new document the next id of the collection;
\* the id of a deleted document is never used again
NextStaffId(st) ==
    IF \A s \in StaffIds : st[s].exists \/ st[s].deleted THEN NoId
    ELSE CHOOSE s \in StaffIds :
            /\ ~st[s].exists /\ ~st[s].deleted
            /\ \A q \in 1..(s - 1) : st[q].exists \/ st[q].deleted

\* the document addStaff stores: Staff.create(...)
CreatedStaff(window) ==
    [NoStaff EXCEPT !.exists = TRUE,
                    !.active = TRUE,
                    !.start_time = window[1],
                    !.end_time = window[2]]

addStaff(us, st, h, window) ==
    Result(us, [st EXCEPT ![NextStaffId(st)] = CreatedStaff(window)], h, TRUE, "")

\* ------------------------------------------------------ requests in flight
ProcIds == {1, 2}

\* an empty users collection
NoUsers == [p \in UserIds |-> NoUser]

\* a request slot: the method running in it, the await it is at, its
\* arguments and the local variables of the method
IdleProc ==
    [op |-> "none", pc |-> "idle", p |-> NoId, s |-> NoId,
     loaded |-> NoUser, user |-> NoUser, workload |-> 0,
     patientIds |-> <<>>, reassigned |-> <<>>,
     found |-> NoUsers, filled |-> 0, ok |-> TRUE]

NoProcs == [i \in ProcIds |-> IdleProc]

\* ------------------------------------------------------------ the machine
\* ids of the users the index is meant to hold
ActiveSet(us) == {p \in UserIds : us[p].exists /\ us[p].status \in {"waiting", "scheduled"}}

\* ids of the stored users: the requests name one of them
Stored == {p \in UserIds : users[p].exists}

\* staff ids that were handed out (still stored or deleted since)
KnownStaff == {s \in StaffIds : staff[s].exists \/ staff[s].deleted}

\* the call returns with result r; `overridden' keeps the users that were
\* emergency-overridden and have been active ever since
Return(op, p, s, r) ==
    /\ calls < MaxCalls
    /\ users' = r.users
    /\ staff' = r.staff
    /\ heap' = r.heap
    /\ overridden' =
         (IF op = "emergencyOverride" /\ r.ok THEN overridden \cup {p} ELSE overridden)
           \cap ActiveSet(r.users)
    /\ calls' = calls + 1
    /\ UNCHANGED <<now, aux>>

\* The service is constructed over the stored collections and init() has
\* rebuilt the heap.  The collections hold what earlier addUser / addStaff
\* calls left there: a first patient with a 10 minute consult, possibly a
\* second with a longer one, each inactive or waiting; a first staff member
\* on duty all day and possibly a second one.
StoredUsers ==
    {us \in [UserIds -> {NoUser} \cup
                {CreatedUser("regular", priority, serviceTime, status, 0) :
                    priority \in PriorityInputs, serviceTime \in ServiceTimeInputs,
                    status \in CreateStatusInputs}] :
        /\ us[UserOrder[1]].exists
        /\ us[UserOrder[1]].estimated_service_time = 10
        /\ \A i \in 2..Len(UserOrder) : us[UserOrder[i]].estimated_service_time # 10
        /\ \A i \in 2..Len(UserOrder) : us[UserOrder[i]].exists => us[UserOrder[i - 1]].exists}

StoredStaff ==
    {st \in [StaffIds -> {NoStaff} \cup {CreatedStaff(window) : window \in WindowInputs}] :
        /\ st[StaffOrder[1]] = CreatedStaff(<< <<0, 0>>, <<23, 59>> >>)
        /\ \A i \in 2..Len(StaffOrder) : st[StaffOrder[i]].exists => st[StaffOrder[i - 1]].exists}

Init ==
    /\ users \in StoredUsers
    /\ staff \in StoredStaff
    /\ now = 0
    /\ heap = init(users, now)
    /\ overridden = {}
    /\ calls = 0
    /\ result = <<>>
    /\ procs = NoProcs
    /\ whole = <<>>

AddUser ==
    /\ NextUserId(users) # NoId
    /\ \E visitType \in {"regular"}, priority \in PriorityInputs,
          serviceTime \in ServiceTimeInputs, status \in CreateStatusInputs :
         Return("addUser", NextUserId(users), NoId,
                addUser(users, staff, heap, visitType, priority, serviceTime, status, now))

AddStaff ==
    /\ NextStaffId(staff) # NoId
    /\ \E window \in WindowInputs :
         Return("addStaff", NoId, NextStaffId(staff), addStaff(users, staff, heap, window))

BookAppointment ==
    \E p \in Stored, visitType \in VisitTypes, preferredDoctorId \in KnownStaff \cup {NoId} :
        Return("bookAppointment", p, preferredDoctorId,
               bookAppointment(users, staff, heap, p, visitType, preferredDoctorId, now))

ScheduleUser ==
    \E p \in Stored :
        Return("scheduleUser", p, NoId, scheduleUser(users, staff, heap, p, now))

AssignDoctor ==
    \E p \in Stored, staffId \in KnownStaff :
        Return("assignDoctor", p, staffId, assignDoctor(users, staff, heap, p, staffId, now))

UpdateStatus ==
    \E p \in Stored, status \in StatusInputs :
        Return("updateStatus", p, NoId, updateStatus(users, staff, heap, p, status))

DeleteStaff ==
    \E staffId \in KnownStaff :
        Return("deleteStaff", NoId, staffId, deleteStaff(users, staff, heap, staffId, now))

OptimizeQueue ==
    Return("optimizeQueue", NoId, NoId, optimizeQueue(users, staff, heap, now))

CancelUser ==
    \E p \in Stored : Return("cancelUser", p, NoId, cancelUser(users, staff, heap, p))

MarkCompleted ==
    \E p \in Stored : Return("markCompleted", p, NoId, markCompleted(users, staff, heap, p))

MarkNoShow ==
    \E p \in Stored : Return("markNoShow", p, NoId, markNoShow(users, staff, heap, p))

ReassignUser ==
    \E p \in Stored : Return("reassignUser", p, NoId, reassignUser(users, staff, heap, p, now))

EmergencyOverride ==
    \E p \in Stored :
        Return("emergencyOverride", p, NoId, emergencyOverride(users, staff, heap, p))

UpdatePriority ==
    \E p \in Stored, newPriority \in PriorityUpdates :
        Return("updatePriority", p, NoId,
               updatePriority(users, staff, heap, p, newPriority, now))

UpdateVisitType ==
    \E p \in Stored, visitType \in VisitTypes :
        Return("updateVisitType", p, NoId,
               updateVisitType(users, staff, heap, p, visitType, now))

\* the process restarts: init() rebuilds the heap from the stored users
Startup ==
    Return("init", NoId, NoId, Result(users, staff, init(users, now), TRUE, ""))

\* a minute passes
Tick ==
    /\ now < MaxNow
    /\ now' = now + 1
    /\ UNCHANGED <<users, staff, heap, overridden, calls, aux>>

Next ==
    \/ AddUser
    \/ AddStaff
    \/ BookAppointment
    \/ ScheduleUser
    \/ AssignDoctor
    \/ UpdateStatus
    \/ DeleteStaff
    \/ OptimizeQueue
    \/ CancelUser
    \/ MarkCompleted
    \/ MarkNoShow
    \/ ReassignUser
    \/ EmergencyOverride
    \/ UpdatePriority
    \/ UpdateVisitType
    \/ Startup
    \/ Tick

Spec == Init /\ [][Next]_vars

\* ------------------------------------------------ storage faults
\* deleteStaff on a staff member with queued patients, where the save of
\* one of the rescored patients is rejected by the store
DeleteStaffFails ==
    \E staffId \in StaffIds :
        /\ staff[staffId].exists
        /\ Len(staff[staffId].queue) > 0
        /\ \E saved \in 0..(Len(Reassigned(users, staff[staffId].queue)) - 1) :
               Return("deleteStaff", NoId, staffId,
                      deleteStaffFailing(users, staff, heap, staffId, now, saved))

NextFaults ==
    \/ Next
    \/ DeleteStaffFails

\* the machine when the store may reject a save
SpecFaults == Init /\ [][NextFaults]_vars

\* ------------------------------------------------- the staff selector alone
\* staff collections the selector can be run on: each document absent, or
\* active or not, with one of three windows (all day; minute 00:01 only;
\* 00:02 to 00:05) and a workload
SelectorWindows ==
    { << <<0, 0>>, <<23, 59>> >>, << <<0, 1>>, <<0, 1>> >>, << <<0, 2>>, <<0, 5>> >> }

SelectorWorkloads == {0, 10, 20}

SelectorStaff ==
    [StaffIds -> {NoStaff} \cup
        {[CreatedStaff(window) EXCEPT !.active = active, !.workload = workload] :
            window \in SelectorWindows, active \in BOOLEAN,
            workload \in SelectorWorkloads}]

InitSelector ==
    /\ users = [p \in UserIds |-> NoUser]
    /\ staff \in SelectorStaff
    /\ now \in 0..MaxNow
    /\ heap = <<>>
    /\ overridden = {}
    /\ calls = 0
    /\ result = <<>>
    /\ procs = NoProcs
    /\ whole = <<>>

\* one call of _findBestStaff(); it reads the staff collection and the clock
FindBestStaff ==
    /\ result = <<>>
    /\ result' = <<_findBestStaff(staff, now)>>
    /\ UNCHANGED <<users, staff, heap, now, overridden, calls, procs, whole>>

NextSelector == FindBestStaff

SpecSelector == InitSelector /\ [][NextSelector]_vars

\* ------------------------------------------------ the score formula alone
\* clock readings and arrival times the formula is evaluated at
ScoreTimes == {0, 1, 45}

\* user documents _calculateScore can be given: any priority 1..5, visit
\* type, arrival time, status, stored score and assigned staff
ScoredUsers ==
    {[NoUser EXCEPT !.exists = TRUE,
                    !.priority_level = priority,
                    !.visit_type = visitType,
                    !.arrival_time = arrival,
                    !.status = status,
                    !.score = score,
                    !.assigned_staff_id = staffId] :
        priority \in 1..5, visitType \in VisitTypes, arrival \in ScoreTimes,
        status \in {"waiting", "serving"}, score \in {0, EMERGENCY_SCORE},
        staffId \in {NoId, 1}}

InitScore ==
    /\ users \in {[p \in UserIds |-> IF p = 1 THEN u ELSE NoUser] : u \in ScoredUsers}
    /\ staff \in {[s \in StaffIds |->
                      IF s = 1 THEN [CreatedStaff(<< <<0, 0>>, <<23, 59>> >>)
                                       EXCEPT !.workload = workload]
                      ELSE NoStaff] : workload \in {0, 20}}
    /\ now \in {t \in ScoreTimes : t >= users[1].arrival_time}
    /\ heap = <<>>
    /\ overridden = {}
    /\ calls = 0
    /\ result = <<>>
    /\ procs = NoProcs
    /\ whole = <<>>

\* one call of _calculateScore(user); it reads the document and the clock
CalculateScore ==
    /\ result = <<>>
    /\ result' = <<_calculateScore(users[1], now)>>
    /\ UNCHANGED <<users, staff, heap, now, overridden, calls, procs, whole>>

NextScore == CalculateScore

SpecScore == InitScore /\ [][NextScore]_vars

\* --------------------------------------------------------- the index alone
\* scores the entries of a rebuild can carry
IndexScores == {30, 50, 9999}

InitIndex ==
    /\ users = [p \in UserIds |-> NoUser]
    /\ staff = [s \in StaffIds |-> NoStaff]
    /\ now = 0
    /\ heap = <<>>
    /\ overridden = {}
    /\ calls = 0
    /\ result = <<>>
    /\ procs = NoProcs
    /\ whole = <<>>

\* one turn of the rebuild loop: this.heap.push({ user_id, score }) for the
\* next active user, whose id is new to the heap
PushEntry ==
    /\ Len(heap) < MaxIndex
    /\ \E score \in IndexScores :
           heap' = HeapPush(heap, [user_id |-> Len(heap) + 1, score |-> score])
    /\ UNCHANGED <<users, staff, now, overridden, calls, result, procs, whole>>

NextIndex == PushEntry

SpecIndex == InitIndex /\ [][NextIndex]_vars

\* --------------------------------------------- calls interleaved at awaits
\* Two calls of bookAppointment (regular visit, no preferred doctor),
\* scheduleUser or deleteStaff are in flight at once.  Each step below is
\* one storage call together with the synchronous code that follows it, or
\* the synchronous code that runs when a storage call has resolved and that
\* touches this.heap; the event loop may run a step of the other call
\* between any two of them.

\* user.save(): the paths changed since the document was loaded are $set
Save(stored, loaded, local) ==
    [field \in DOMAIN stored |->
        IF local[field] # loaded[field] THEN local[field] ELSE stored[field]]

\* a staff.save() that would add the minutes to the stored workload ($inc)
IncrementedWorkload(stored, local, est) == stored + est

\* staff.workload += user.estimated_service_time; staff.save(): the sum
\* computed on the loaded document is $set
SavedWorkload(stored, local, est) == local + est

\* a fill loop that would yield to the event loop after each push
EveryPushAwaits == TRUE

\* the for loop of _rebuildHeap has no await in its body
PushLoopAwaits == FALSE

\* the document bookAppointment saves for a regular visit
Booked(u, t) ==
    LET u1 == [u EXCEPT !.arrival_time = t, !.queue_entry_time = t,
                        !.visit_type = "regular", !.status = "waiting"]
    IN  [u1 EXCEPT !.score = _calculateScore(u1, t)]

\* the document scheduleUser saves
Scheduled(u, s, t) ==
    [u EXCEPT !.assigned_staff_id = s, !.status = "scheduled",
              !.score = _calculateScore(u, t)]

\* the collections after the waiting patients of `queued' were scheduled,
\* one call after the other
RECURSIVE SettledFrom(_, _, _)
SettledFrom(r, ids, queued) ==
    IF ids = <<>> THEN r
    ELSE LET p == Head(ids)
             r1 == IF p \in queued /\ r.users[p].status = "waiting"
                   THEN scheduleUser(r.users, r.staff, r.heap, p, 0)
                   ELSE r
         IN  SettledFrom(r1, Tail(ids), queued)

InitAsync ==
    /\ \E us \in StoredUsers, st \in StoredStaff, queued \in SUBSET UserIds :
          LET r == SettledFrom(Result(us, st, init(us, 0), TRUE, ""), UserOrder, queued)
          IN  /\ users = r.users
              /\ staff = r.staff
              /\ heap = r.heap
    /\ whole = heap
    /\ now = 0
    /\ overridden = {}
    /\ calls = 0
    /\ result = <<>>
    /\ procs = NoProcs

\* request slot i is free and the slots before it are taken
Free(i) ==
    /\ procs[i].op = "none"
    /\ \A j \in ProcIds : j < i => procs[j].op # "none"

Call(i, f) ==
    /\ Free(i)
    /\ procs' = [procs EXCEPT ![i] = f]
    /\ calls' = calls + 1
    /\ UNCHANGED <<users, staff, heap, now, overridden, result, whole>>

\* the call in slot i has thrown
Thrown(f) == [f EXCEPT !.pc = "done", !.ok = FALSE]

CallBookAppointment ==
    \E i \in ProcIds, p \in Stored :
        Call(i, [IdleProc EXCEPT !.op = "bookAppointment", !.pc = "findUser", !.p = p])

CallScheduleUser ==
    \E i \in ProcIds, p \in Stored :
        Call(i, [IdleProc EXCEPT !.op = "scheduleUser", !.pc = "findUser", !.p = p])

CallDeleteStaff ==
    \E i \in ProcIds, s \in StaffIds :
        /\ staff[s].exists
        /\ Call(i, [IdleProc EXCEPT !.op = "deleteStaff", !.pc = "findById", !.s = s])

\* const user = await User.findById(userId) and the status guard
FindUser ==
    \E i \in ProcIds :
        LET f == procs[i]
            u == users[f.p]
        IN  /\ f.pc = "findUser"
            /\ procs' = [procs EXCEPT ![i] =
                  IF f.op = "bookAppointment"
                  THEN IF u.status \notin BookableStatuses THEN Thrown(f)
                       ELSE [f EXCEPT !.loaded = u, !.user = Booked(u, now),
                                      !.pc = "saveUser"]
                  ELSE IF u.status \in TerminalStatuses THEN Thrown(f)
                       ELSE [f EXCEPT !.loaded = u, !.pc = "findBestStaff"]]
            /\ UNCHANGED <<users, staff, heap, now, overridden, calls, result, whole>>

\* const staff = await this._findBestStaff() and the assignments to user
FindStaff ==
    \E i \in ProcIds :
        LET f == procs[i]
            s == _findBestStaff(staff, now)
        IN  /\ f.pc = "findBestStaff"
            /\ procs' = [procs EXCEPT ![i] =
                  IF s = NoId THEN Thrown(f)
                  ELSE [f EXCEPT !.s = s, !.workload = staff[s].workload,
                                 !.user = Scheduled(f.loaded, s, now),
                                 !.pc = "saveUser"]]
            /\ UNCHANGED <<users, staff, heap, now, overridden, calls, result, whole>>

\* await user.save() of bookAppointment and of scheduleUser
SaveUser ==
    \E i \in ProcIds :
        LET f == procs[i]
        IN  /\ f.pc = "saveUser"
            /\ users' = [users EXCEPT ![f.p] = Save(@, f.loaded, f.user)]
            /\ procs' = [procs EXCEPT ![i].pc =
                  IF f.op = "bookAppointment" THEN "push" ELSE "saveStaff"]
            /\ UNCHANGED <<staff, heap, now, overridden, calls, result, whole>>

\* this.heap.push({user_id, score}) once the save of bookAppointment resolved
PushBooked ==
    \E i \in ProcIds :
        LET f == procs[i]
        IN  /\ f.pc = "push"
            /\ heap' = HeapPush(heap, [user_id |-> f.p, score |-> f.user.score])
            /\ whole' = heap'
            /\ procs' = [procs EXCEPT ![i].pc = "findAgain"]
            /\ UNCHANGED <<users, staff, now, overridden, calls, result>>

\* return await User.findById(userId)
FindAgain ==
    \E i \in ProcIds :
        /\ procs[i].pc = "findAgain"
        /\ procs' = [procs EXCEPT ![i].pc = "done"]
        /\ UNCHANGED <<users, staff, heap, now, overridden, calls, result, whole>>

\* staff.queue.push(user._id); staff.workload += ...; await staff.save().
\* The push is sent as $push and the workload as $set.  When the document
\* has been deleted nothing is written, and the save rejects or resolves
\* depending on the version of the mapper.
SaveStaff ==
    \E i \in ProcIds :
        LET f == procs[i]
        IN  /\ f.pc = "saveStaff"
            /\ IF staff[f.s].exists
               THEN /\ staff' = [staff EXCEPT
                          ![f.s].queue = Append(@, f.p),
                          ![f.s].workload =
                              SavedWorkload(@, f.workload, f.user.estimated_service_time)]
                    /\ procs' = [procs EXCEPT ![i].pc = "rebuildFind"]
               ELSE /\ staff' = staff
                    /\ \/ procs' = [procs EXCEPT ![i] = Thrown(f)]
                       \/ procs' = [procs EXCEPT ![i].pc = "rebuildFind"]
            /\ UNCHANGED <<users, heap, now, overridden, calls, result, whole>>

\* const staff = await Staff.findById(staffId).lean() of deleteStaff
FindStaffById ==
    \E i \in ProcIds :
        LET f == procs[i]
        IN  /\ f.pc = "findById"
            /\ procs' = [procs EXCEPT ![i] =
                  IF ~staff[f.s].exists THEN Thrown(f)
                  ELSE [f EXCEPT !.patientIds = staff[f.s].queue,
                                 !.pc = IF Len(staff[f.s].queue) > 0
                                        THEN "updateMany" ELSE "findByIdAndDelete"]]
            /\ UNCHANGED <<users, staff, heap, now, overridden, calls, result, whole>>

\* await User.updateMany({_id: {$in: patientIds}}, {$set: {...}})
UpdateMany ==
    \E i \in ProcIds :
        LET f == procs[i]
        IN  /\ f.pc = "updateMany"
            /\ users' = [p \in UserIds |->
                  IF users[p].exists
                     /\ \E k \in 1..Len(f.patientIds) : f.patientIds[k] = p
                  THEN [users[p] EXCEPT !.assigned_staff_id = NoId, !.status = "waiting"]
                  ELSE users[p]]
            /\ procs' = [procs EXCEPT ![i].pc = "findReassigned"]
            /\ UNCHANGED <<staff, heap, now, overridden, calls, result, whole>>

\* const reassigned = await User.find({_id: {$in: patientIds}})
FindReassigned ==
    \E i \in ProcIds :
        LET f == procs[i]
            reassigned == Reassigned(users, f.patientIds)
        IN  /\ f.pc = "findReassigned"
            /\ procs' = [procs EXCEPT ![i] =
                  [f EXCEPT !.found = users, !.reassigned = reassigned,
                            !.pc = IF Len(reassigned) > 0
                                   THEN "saveReassigned" ELSE "findByIdAndDelete"]]
            /\ UNCHANGED <<users, staff, heap, now, overridden, calls, result, whole>>

\* u.score = this._calculateScore(u); await u.save() for the next document
SaveReassigned ==
    \E i \in ProcIds :
        LET f == procs[i]
            p == Head(f.reassigned)
            u == f.found[p]
        IN  /\ f.pc = "saveReassigned"
            /\ users' = [users EXCEPT ![p] =
                  Save(@, u, [u EXCEPT !.score = _calculateScore(u, now)])]
            /\ procs' = [procs EXCEPT ![i] =
                  [f EXCEPT !.reassigned = Tail(f.reassigned),
                            !.pc = IF Len(f.reassigned) > 1
                                   THEN "saveReassigned" ELSE "findByIdAndDelete"]]
            /\ UNCHANGED <<staff, heap, now, overridden, calls, result, whole>>

\* await Staff.findByIdAndDelete(staffId)
FindByIdAndDelete ==
    \E i \in ProcIds :
        LET f == procs[i]
        IN  /\ f.pc = "findByIdAndDelete"
            /\ staff' = [staff EXCEPT ![f.s] =
                  IF @.exists THEN [NoStaff EXCEPT !.deleted = TRUE] ELSE @]
            /\ procs' = [procs EXCEPT ![i].pc = "rebuildFind"]
            /\ UNCHANGED <<users, heap, now, overridden, calls, result, whole>>

\* const activeUsers = await User.find({status: {$in: [...]}}).lean()
RebuildFind ==
    \E i \in ProcIds :
        LET f == procs[i]
        IN  /\ f.pc = "rebuildFind"
            /\ procs' = [procs EXCEPT ![i] =
                  [f EXCEPT !.found = users, !.filled = 0, !.pc = "rebuildFill"]]
            /\ UNCHANGED <<users, staff, heap, now, overridden, calls, result, whole>>

\* this.heap = new Heap(...) and the pushes that run before the next await:
\* all of them, as the loop does not await
RebuildFill ==
    \E i \in ProcIds :
        LET f == procs[i]
            activeUsers == ActiveUsers(f.found)
            upto == IF PushLoopAwaits /\ f.filled < Len(activeUsers)
                    THEN f.filled + 1 ELSE Len(activeUsers)
            start == IF f.filled = 0 THEN <<>> ELSE heap
        IN  /\ f.pc = "rebuildFill"
            /\ heap' = PushStored(start, SubSeq(activeUsers, f.filled + 1, upto), f.found)
            /\ IF upto = Len(activeUsers)
               THEN /\ whole' = heap'
                    /\ procs' = [procs EXCEPT ![i] = [f EXCEPT !.filled = upto, !.pc = "done"]]
               ELSE /\ whole' = whole
                    /\ procs' = [procs EXCEPT ![i].filled = upto]
            /\ UNCHANGED <<users, staff, now, overridden, calls, result>>

NextAsync ==
    \/ CallBookAppointment
    \/ CallScheduleUser
    \/ CallDeleteStaff
    \/ FindUser
    \/ FindStaff
    \/ SaveUser
    \/ PushBooked
    \/ FindAgain
    \/ SaveStaff
    \/ FindStaffById
    \/ UpdateMany
    \/ FindReassigned
    \/ SaveReassigned
    \/ FindByIdAndDelete
    \/ RebuildFind
    \/ RebuildFill

\* the machine with two calls in flight
SpecAsync == InitAsync /\ [][NextAsync]_vars

TypeOK ==
    /\ \A p \in UserIds : users[p].status \in Statuses
    /\ now \in 0..MaxNow

\* ============================================================== properties
\* what getUserStatus reports as queue_position in the current state
QueuePosition(p) == Position(heap, p)

\* number of heap entries that carry user id p
Entries(h, p) == Cardinality({i \in 1..Len(h) : h[i].user_id = p})

\* sum of estimated_service_time over the entries of a queue list
RECURSIVE QueueMinutes(_, _)
QueueMinutes(queue, us) ==
    IF queue = <<>> THEN 0
    ELSE us[Head(queue)].estimated_service_time + QueueMinutes(Tail(queue), us)

StoredStaffIds == {s \in StaffIds : staff[s].exists}

SameStored(r) == r.users = users /\ r.staff = staff /\ r.heap = heap

\* C1: after any sequence of engine calls, the index holds exactly one entry
\* for every waiting or scheduled patient and no entry for any other patient.
C1_IndexIsActiveSet ==
    /\ \A p \in ActiveSet(users) : Entries(heap, p) = 1
    /\ \A i \in 1..Len(heap) : heap[i].user_id \in ActiveSet(users)

\* C1 witness: three calls were made, both patients are stored, one is in
\* the index and the other has left the queue.
C1_Witness ==
    /\ calls = MaxCalls
    /\ \E p, q \in Stored :
         /\ users[p].status = "scheduled" /\ Entries(heap, p) = 1
         /\ users[q].status \in {"completed", "serving"} /\ Entries(heap, q) = 0

\* C2: every staff member's workload equals the sum of estimated_service_time
\* over the patients in its queue list.
C2_WorkloadIsQueueSum ==
    \A s \in StoredStaffIds : staff[s].workload = QueueMinutes(staff[s].queue, users)

\* C3: no staff queue holds the same patient twice.
C3_NoDuplicateInQueue ==
    \A s \in StoredStaffIds :
        \A i, j \in 1..Len(staff[s].queue) :
            staff[s].queue[i] = staff[s].queue[j] => i = j

\* C4: every patient in a staff member's queue is assigned to that staff
\* member, so no patient is in the queues of two staff members.
C4_QueuedIsAssigned ==
    \A s \in StoredStaffIds :
        \A i \in 1..Len(staff[s].queue) :
            users[staff[s].queue[i]].assigned_staff_id = s

\* C5: right after emergencyOverride(p) returns, the reported queue position
\* of p is 1, whatever the status of p and the contents of the queue were.
C5_OverrideIsFirst ==
    \A p \in Stored :
        LET r == emergencyOverride(users, staff, heap, p)
        IN  r.ok /\ Position(r.heap, p) = 1

\* C6: an emergency-overridden patient that is still active ranks above every
\* active patient that was not overridden, in every index state.
C6_OverriddenOutranks ==
    \A p \in overridden :
        \A q \in ActiveSet(users) \ overridden :
            QueuePosition(p) >= 1 /\ QueuePosition(p) < QueuePosition(q)

\* C7: a completed, cancelled or no-show patient becomes waiting, scheduled
\* or serving only by a booking, and a booking is accepted only from inactive,
\* completed or cancelled: none of the other calls moves it back.
C7_TerminalStays ==
    \A p \in Stored :
        users[p].status \in {"completed", "cancelled", "no-show"} =>
            LET back(r) == r.users[p].status \in {"waiting", "scheduled", "serving"}
            IN  /\ ~back(scheduleUser(users, staff, heap, p, now))
                /\ \A s \in KnownStaff : ~back(assignDoctor(users, staff, heap, p, s, now))
                /\ ~back(reassignUser(users, staff, heap, p, now))
                /\ ~back(emergencyOverride(users, staff, heap, p))
                /\ \A status \in {"serving", "completed", "no-show", "cancelled"} :
                       ~back(updateStatus(users, staff, heap, p, status))
                /\ ~back(markCompleted(users, staff, heap, p))
                /\ ~back(markNoShow(users, staff, heap, p))
                /\ ~back(cancelUser(users, staff, heap, p))
                /\ (users[p].status = "no-show" =>
                       \A v \in VisitTypes, d \in KnownStaff \cup {NoId} :
                           ~bookAppointment(users, staff, heap, p, v, d, now).ok)

\* C8: after deleteStaff(s) succeeds, every patient that was in the queue of
\* s is waiting with no assigned staff, and no stored patient of any status
\* has assigned_staff_id = s.
C8_DeleteLeavesNoReference ==
    \A s \in StoredStaffIds :
        LET r == deleteStaff(users, staff, heap, s, now)
        IN  /\ r.ok
            /\ \A i \in 1..Len(staff[s].queue) :
                   /\ r.users[staff[s].queue[i]].status = "waiting"
                   /\ r.users[staff[s].queue[i]].assigned_staff_id = NoId
            /\ \A p \in Stored : r.users[p].assigned_staff_id # s

\* C9: booking a patient that is waiting, scheduled, serving or booked fails
\* and leaves the patient, every staff record and the index as they were.
C9_BookActiveFails ==
    \A p \in Stored :
        users[p].status \in {"waiting", "scheduled", "serving", "booked"} =>
            \A v \in VisitTypes, d \in KnownStaff \cup {NoId} :
                LET r == bookAppointment(users, staff, heap, p, v, d, now)
                IN  ~r.ok /\ SameStored(r)

\* C9 witness: one patient is serving in a staff queue, another is booked,
\* and booking either of them is refused.
C9_Witness ==
    \E p, q \in Stored :
        /\ users[p].status = "serving"
        /\ \E s \in StoredStaffIds : Len(staff[s].queue) > 0
        /\ users[q].status = "booked"
        /\ ~bookAppointment(users, staff, heap, p, "emergency", NoId, now).ok
        /\ ~bookAppointment(users, staff, heap, q, "regular", NoId, now).ok

\* C10: scheduleUser fails on a completed, cancelled or no-show patient, and
\* fails with NoEligibleStaff when the staff selector returns none; in both
\* cases the users, the staff queues and workloads and the index are unchanged.
C10_ScheduleFailsCleanly ==
    \A p \in Stored :
        LET r == scheduleUser(users, staff, heap, p, now)
        IN  /\ users[p].status \in {"completed", "cancelled", "no-show"} =>
                  ~r.ok /\ SameStored(r)
            /\ (users[p].status \notin {"completed", "cancelled", "no-show"}
                  /\ _findBestStaff(staff, now) = NoId) =>
                  ~r.ok /\ r.err = "NoEligibleStaff" /\ SameStored(r)

\* C10 witness: a cancelled patient in the index's absence and a waiting
\* patient with no staff left; both schedule calls fail.
C10_Witness ==
    \E p, q \in Stored :
        /\ users[p].status = "cancelled"
        /\ scheduleUser(users, staff, heap, p, now).err = "InvalidTransition"
        /\ users[q].status = "waiting"
        /\ StoredStaffIds = {}
        /\ scheduleUser(users, staff, heap, q, now).err = "NoEligibleStaff"

\* number of times p occurs in a queue list
Occurrences(queue, p) == Cardinality({i \in 1..Len(queue) : queue[i] = p})

\* C11: after assignDoctor(p, s) succeeds, p is exactly once in the queue of
\* s and in no other queue, p.assigned_staff_id = s, and the workload of s
\* is its workload after the removal of p from its previous queue plus the
\* estimated service time of p.
C11_AssignOnceAndCounted ==
    \A p \in Stored : \A s \in StoredStaffIds :
        LET r == assignDoctor(users, staff, heap, p, s, now)
            removed == _removeFromStaffQueue(staff, p, users[p]).staff
        IN  r.ok =>
              /\ Occurrences(r.staff[s].queue, p) = 1
              /\ \A d \in StoredStaffIds \ {s} : Occurrences(r.staff[d].queue, p) = 0
              /\ r.users[p].assigned_staff_id = s
              /\ r.staff[s].workload =
                     removed[s].workload + users[p].estimated_service_time

\* C12: after markCompleted, markNoShow or cancelUser on p, p is in no staff
\* queue and the workload of the staff member it was queued with went down
\* by p's estimated service time, not below zero; so no completed, cancelled
\* or no-show patient is in any staff queue.
C12_DoneLeavesQueues ==
    /\ \A p \in Stored :
         \A r \in {markCompleted(users, staff, heap, p),
                   markNoShow(users, staff, heap, p),
                   cancelUser(users, staff, heap, p)} :
             /\ r.ok
             /\ \A s \in StoredStaffIds :
                  /\ Occurrences(r.staff[s].queue, p) = 0
                  /\ Occurrences(staff[s].queue, p) > 0 =>
                         r.staff[s].workload =
                             Max(0, staff[s].workload - users[p].estimated_service_time)
    /\ \A p \in Stored :
         users[p].status \in {"completed", "cancelled", "no-show"} =>
             \A s \in StoredStaffIds : Occurrences(staff[s].queue, p) = 0

\* the times at which a call that follows one made at `now' can be made
LaterTimes == now..MaxNow

\* C13: reassignUser called twice in a row on a waiting patient with no
\* assigned staff leaves, after each call, the patient waiting and
\* unassigned, every staff queue and workload as before, and exactly one
\* index entry for the patient.
C13_ReassignTwice ==
    \A p \in Stored :
        (users[p].status = "waiting" /\ users[p].assigned_staff_id = NoId) =>
            \A t \in LaterTimes :
                LET r1 == reassignUser(users, staff, heap, p, now)
                    r2 == reassignUser(r1.users, r1.staff, r1.heap, p, t)
                IN  \A r \in {r1, r2} :
                        /\ r.ok
                        /\ r.users[p].status = "waiting"
                        /\ r.users[p].assigned_staff_id = NoId
                        /\ r.staff = staff
                        /\ Entries(r.heap, p) = 1
                        /\ \A q \in Stored \ {p} : r.users[q] = users[q]

\* C13 witness: a waiting, unassigned patient shares the index with a
\* patient queued with a staff member, and the call rescores it.
C13_Witness ==
    \E p \in Stored :
        /\ users[p].status = "waiting" /\ users[p].assigned_staff_id = NoId
        /\ Len(heap) = 2
        /\ \E s \in StoredStaffIds : Len(staff[s].queue) > 0
        /\ reassignUser(users, staff, heap, p, now).users[p].score # users[p].score

\* the calls that assign p to staff member s: assignDoctor(p, s), and
\* scheduleUser(p) when the selector picks s
AssignmentsTo(p, s) ==
    {r \in {assignDoctor(users, staff, heap, p, s, now),
            scheduleUser(users, staff, heap, p, now)} :
        r.ok /\ r.users[p].assigned_staff_id = s}

\* the calls that take p out of its staff queue, made at time t on state r
Departures(r, p, t) ==
    {markCompleted(r.users, r.staff, r.heap, p),
     markNoShow(r.users, r.staff, r.heap, p),
     cancelUser(r.users, r.staff, r.heap, p),
     reassignUser(r.users, r.staff, r.heap, p, t)}

\* C14: assigning p to a staff member whose queue does not hold p and then
\* completing, cancelling, no-showing or reassigning p gives that staff
\* member the queue list and workload it had before the assignment.
C14_AssignThenLeaveRestores ==
    \A p \in Stored : \A s \in StoredStaffIds :
        Occurrences(staff[s].queue, p) = 0 =>
            \A a \in AssignmentsTo(p, s) :
                /\ a.staff[s].queue = Append(staff[s].queue, p)
                /\ a.staff[s].workload =
                       staff[s].workload + users[p].estimated_service_time
                /\ \A t \in LaterTimes : \A d \in Departures(a, p, t) :
                       /\ d.ok
                       /\ d.staff[s].queue = staff[s].queue
                       /\ d.staff[s].workload = staff[s].workload

\* C14 witness: a staff member already has another patient queued, and a
\* 20 minute patient that is not in its queue can be assigned to it by both
\* calls.
C14_Witness ==
    \E p \in Stored : \E s \in StoredStaffIds :
        /\ Occurrences(staff[s].queue, p) = 0
        /\ staff[s].workload > 0
        /\ users[p].estimated_service_time = 20
        /\ Cardinality(AssignmentsTo(p, s)) = 2

\* the bookings a caller can make in the current state: bookAppointment on a
\* stored patient with any visit type and any or no preferred doctor
Bookings(p) ==
    {bookAppointment(users, staff, heap, p, v, d, now) :
        v \in VisitTypes, d \in KnownStaff \cup {NoId}}

\* C15: getUserStatus right after a successful bookAppointment(p) reports a
\* queue_position >= 1 (never null) and estimated_wait_minutes >= 0, whether
\* p ended waiting or scheduled.
C15_BookThenStatus ==
    \A p \in Stored : \A r \in Bookings(p) :
        r.ok =>
            \A t \in LaterTimes :
                LET reply == getUserStatus(r.users, r.staff, r.heap, p, t)
                IN  /\ reply.ok
                    /\ reply.queue_position >= 1
                    /\ reply.estimated_wait_minutes >= 0

\* C15 witness: one booking leaves the patient waiting in second position
\* with a positive flat estimate, another schedules it behind a queued
\* patient with a positive wait.
C15_Witness ==
    \E p \in Stored : \E r1, r2 \in Bookings(p) :
        /\ r1.ok /\ r1.users[p].status = "waiting"
        /\ getUserStatus(r1.users, r1.staff, r1.heap, p, now).queue_position = 2
        /\ getUserStatus(r1.users, r1.staff, r1.heap, p, now).estimated_wait_minutes > 0
        /\ r2.ok /\ r2.users[p].status = "scheduled"
        /\ getUserStatus(r2.users, r2.staff, r2.heap, p, now).estimated_wait_minutes > 0

\* the states after p is booked with visit type vp at `now' and q is then
\* booked with visit type vq at a time t, each with any or no preferred
\* doctor; only the runs in which both bookings succeed
BookedPairs(p, vp, q, vq) ==
    {r2 \in UNION {
        {bookAppointment(r1.users, r1.staff, r1.heap, q, vq, d2, t) :
            d2 \in KnownStaff \cup {NoId}, t \in LaterTimes} :
        r1 \in {r \in {bookAppointment(users, staff, heap, p, vp, d1, now) :
                          d1 \in KnownStaff \cup {NoId}} : r.ok}} :
     r2.ok}

\* C16: of two patients booked one after the other, one booked as emergency
\* is first in the index ahead of one booked as regular or follow_up of any
\* priority, and a regular one is ahead of a follow_up one of the same or a
\* lower priority, in whichever order they were booked.
C16_BookingRank ==
    \A p, q \in Stored :
        p # q =>
          /\ \A v \in {"regular", "follow_up"} :
               /\ \A r \in BookedPairs(p, "emergency", q, v) :
                      Position(r.heap, p) = 1 /\ Position(r.heap, q) = 2
               /\ \A r \in BookedPairs(q, v, p, "emergency") :
                      Position(r.heap, p) = 1 /\ Position(r.heap, q) = 2
          /\ users[q].priority_level <= users[p].priority_level =>
               /\ \A r \in BookedPairs(p, "regular", q, "follow_up") :
                      Position(r.heap, p) = 1 /\ Position(r.heap, q) = 2
               /\ \A r \in BookedPairs(q, "follow_up", p, "regular") :
                      Position(r.heap, p) = 1 /\ Position(r.heap, q) = 2

\* C16 witness: two bookable patients, the one with the lower id already at
\* priority 5, the other at priority 1, a minute after they arrived; both
\* orders of booking succeed.
C16_Witness ==
    \E p, q \in Stored :
        /\ p > q
        /\ users[q].priority_level = 5 /\ users[p].priority_level = 1
        /\ now = MaxNow
        /\ BookedPairs(p, "emergency", q, "regular") # {}
        /\ BookedPairs(q, "follow_up", p, "emergency") # {}

\* C17: after emergencyOverride(p) on a patient that is not completed,
\* cancelled or no-show, p is waiting with visit type emergency, priority 5
\* and stored score 9999.
C17_OverrideMakesWaiting ==
    \A p \in Stored :
        users[p].status \notin {"completed", "cancelled", "no-show"} =>
            LET r == emergencyOverride(users, staff, heap, p)
            IN  /\ r.ok
                /\ r.users[p].status = "waiting"
                /\ r.users[p].visit_type = "emergency"
                /\ r.users[p].priority_level = 5
                /\ r.users[p].score = EMERGENCY_SCORE

\* C18: emergencyOverride(p) keeps p's assigned_staff_id, keeps every staff
\* record (queue list and workload) and changes no other patient.
C18_OverrideFrame ==
    \A p \in Stored :
        LET r == emergencyOverride(users, staff, heap, p)
        IN  /\ r.ok
            /\ r.users[p].assigned_staff_id = users[p].assigned_staff_id
            /\ r.staff = staff
            /\ \A q \in UserIds \ {p} : r.users[q] = users[q]

\* C18 witness: the overridden patient is queued with a staff member, a
\* second patient is active, and the override changes the patient's record
\* and its rank.
C18_Witness ==
    \E p, q \in Stored :
        /\ p # q
        /\ users[p].assigned_staff_id \in StoredStaffIds
        /\ Occurrences(staff[users[p].assigned_staff_id].queue, p) = 1
        /\ Position(heap, q) = 1 /\ Position(heap, p) = 2
        /\ LET r == emergencyOverride(users, staff, heap, p)
           IN  r.users[p] # users[p] /\ Position(r.heap, p) = 1

\* C19: when a patient update fails during deleteStaff(s) the call reports
\* failure and the stored state is as before the call: s still exists and
\* every patient in its queue keeps its status and assigned_staff_id.
C19_DeleteAllOrNothing ==
    \A s \in StoredStaffIds :
        \A saved \in 0..(Len(Reassigned(users, staff[s].queue)) - 1) :
            LET r == deleteStaffFailing(users, staff, heap, s, now, saved)
            IN  /\ ~r.ok
                /\ r.staff[s].exists
                /\ \A i \in 1..Len(staff[s].queue) :
                       /\ r.users[staff[s].queue[i]].status =
                              users[staff[s].queue[i]].status
                       /\ r.users[staff[s].queue[i]].assigned_staff_id =
                              users[staff[s].queue[i]].assigned_staff_id
                /\ SameStored(r)

\* the calls that name a patient and can throw "not found", made on p and,
\* where a staff id is passed, on any staff id
NotFoundCalls(p) ==
    {scheduleUser(users, staff, heap, p, now),
     reassignUser(users, staff, heap, p, now),
     cancelUser(users, staff, heap, p),
     markCompleted(users, staff, heap, p),
     markNoShow(users, staff, heap, p),
     emergencyOverride(users, staff, heap, p)}
      \cup {assignDoctor(users, staff, heap, p, s, now) : s \in StaffIds}
      \cup {updateStatus(users, staff, heap, p, status) : status \in Statuses}

\* C20: a call that fails with NotFound leaves the stored state as it was;
\* so assignDoctor(p, s) with an s that does not exist leaves p's record and
\* every staff queue and workload unchanged, also when p is queued with
\* another staff member.
C20_NotFoundNoEffect ==
    /\ \A p \in UserIds : \A r \in NotFoundCalls(p) :
           (~r.ok /\ r.err = "NotFound") => SameStored(r)
    /\ \A s \in StaffIds :
           LET r == deleteStaff(users, staff, heap, s, now)
           IN  (~r.ok /\ r.err = "NotFound") => SameStored(r)

\* C21: bookAppointment does not fail because the staff assignment failed:
\* when the preferred staff cannot be assigned and the visit is not an
\* emergency the call succeeds with the patient waiting and without assigned
\* staff; when it is an emergency and no staff is eligible the call succeeds
\* with the patient waiting.
C21_BookSurvivesAssignment ==
    \A p \in Stored :
        users[p].status \in {"inactive", "completed", "cancelled"} =>
            \A v \in VisitTypes : \A d \in StaffIds :
                LET r == bookAppointment(users, staff, heap, p, v, d, now)
                IN  /\ r.ok
                    /\ (~staff[d].exists /\ v # "emergency") =>
                          /\ r.users[p].status = "waiting"
                          /\ r.users[p].assigned_staff_id = NoId
                    /\ (~staff[d].exists /\ v = "emergency"
                          /\ _findBestStaff(r.staff, now) = NoId) =>
                          r.users[p].status = "waiting"

\* active staff members, and those whose window holds the current minute
\* (start <= now <= end, both in minutes of the day)
ActiveNow == {s \in StaffIds : staff[s].exists /\ staff[s].active}

InWindowNow ==
    {s \in ActiveNow :
        /\ staff[s].start_time[1] * 60 + staff[s].start_time[2] <= now
        /\ now <= staff[s].end_time[1] * 60 + staff[s].end_time[2]}

\* C26: when some active staff member is inside its window, _findBestStaff
\* returns an active in-window staff member of minimal workload among the
\* active in-window ones, the first in storage order among equals.
C26_BestIsInWindowMinimum ==
    (result # <<>> /\ InWindowNow # {}) =>
        /\ result[1] \in InWindowNow
        /\ \A s \in InWindowNow :
              /\ staff[result[1]].workload <= staff[s].workload
              /\ staff[s].workload = staff[result[1]].workload => result[1] <= s

\* C26 witness: the first staff member has no workload but is out of its
\* window, the second is in its window with 20 minutes, and was returned.
C26_Witness ==
    /\ result = <<2>>
    /\ ActiveNow = {1, 2} /\ InWindowNow = {2}
    /\ staff[1].workload = 0 /\ staff[2].workload = 20

\* C27: _findBestStaff returns none exactly when no staff member is active;
\* when active staff exist but none is in its window it returns an active
\* one of lowest workload among all active staff.
C27_NoneIffNoActive ==
    result # <<>> =>
        /\ result[1] = NoId <=> ActiveNow = {}
        /\ (ActiveNow # {} /\ InWindowNow = {}) =>
              /\ result[1] \in ActiveNow
              /\ \A s \in ActiveNow : staff[result[1]].workload <= staff[s].workload

\* C27 witness: both staff members are active and out of their windows, the
\* second has the lower workload and was returned.
C27_Witness ==
    /\ result = <<2>>
    /\ ActiveNow = {1, 2} /\ InWindowNow = {}
    /\ staff[2].workload < staff[1].workload

C30_BookedIsIndexedOnce ==
    \A p \in Stored : \A v \in VisitTypes : \A d \in StaffIds \cup {NoId} :
        LET r == bookAppointment(users, staff, heap, p, v, d, now)
            entries == {i \in 1..Len(r.heap) : r.heap[i].user_id = p}
        IN  r.ok =>
              /\ r.users[p].status \in {"waiting", "scheduled"}
              /\ Cardinality(entries) = 1
              /\ \A i \in entries : r.heap[i].score = r.users[p].score
              /\ r.users[p].score =
                     10 * r.users[p].priority_level
                       + (CASE v = "emergency" -> 20
                            [] v = "regular" -> 0
                            [] v = "follow_up" -> 0 - 5)
              /\ v = "emergency" => r.users[p].priority_level = 5
              /\ v # "emergency" => r.users[p].priority_level = users[p].priority_level

\* C30 witness: a cancelled patient of priority 1 with a stale score can be
\* booked a minute after it arrived, as an emergency that gets scheduled and
\* as a follow_up that stays waiting.
C30_Witness ==
    \E p \in Stored :
        /\ users[p].status = "cancelled" /\ users[p].priority_level = 1
        /\ now > users[p].arrival_time
        /\ users[p].score # 10 * users[p].priority_level
        /\ bookAppointment(users, staff, heap, p, "emergency", NoId, now).users[p].status
              = "scheduled"
        /\ bookAppointment(users, staff, heap, p, "follow_up", NoId, now).users[p].status
              = "waiting"

\* every issued call has returned
AllReturned == \A i \in ProcIds : procs[i].pc \in {"idle", "done"}

\* C22: once all the calls issued at overlapping times have returned, the
\* index holds exactly one entry for every patient whose status is waiting
\* or scheduled and no entry for any other patient.
C22_IndexExactWhenQuiet ==
    AllReturned =>
        \A p \in UserIds :
            Entries(heap, p) = IF p \in ActiveSet(users) THEN 1 ELSE 0

\* the two calls are scheduleUser calls for different patients that chose
\* the same staff member s, read the same workload of s (neither read
\* after the other's write) and have both returned successfully
BothAssignedTo(s) ==
    /\ \A i \in ProcIds :
          /\ procs[i].op = "scheduleUser"
          /\ procs[i].pc = "done"
          /\ procs[i].ok
          /\ procs[i].s = s
    /\ procs[1].p # procs[2].p
    /\ procs[1].workload = procs[2].workload
    /\ staff[s].exists

\* C23: when two assignment requests for different patients and the same
\* staff member both read the staff record before either writes it, one
\* workload update is lost: after both have returned the stored workload
\* differs from the sum of estimated_service_time over the stored queue.
C23_InterleavedAssignLosesUpdate ==
    \A s \in StaffIds :
        BothAssignedTo(s) =>
            /\ staff[s].workload # QueueMinutes(staff[s].queue, users)
            /\ \E i \in ProcIds :
                  staff[s].workload =
                      QueueMinutes(staff[s].queue, users)
                        - users[procs[i].p].estimated_service_time

\* C23 witness: two such requests have returned and the queue of the staff
\* member holds both patients
C23_Witness ==
    \E s \in StaffIds :
        /\ BothAssignedTo(s)
        /\ \A i \in ProcIds : Occurrences(staff[s].queue, procs[i].p) = 1
        /\ Len(staff[s].queue) = 2

\* C24: when deleteStaff(s) and the call issued alongside it have both
\* returned and the deletion succeeded, no stored patient has
\* assigned_staff_id = s (so none is scheduled for the deleted s).
C24_NoDanglingAfterDelete ==
    \A i \in ProcIds :
        (AllReturned /\ procs[i].op = "deleteStaff" /\ procs[i].ok) =>
            \A p \in Stored : users[p].assigned_staff_id # procs[i].s

\* C25: between any two steps of the calls in flight, which is where a
\* reader such as getUserStatus or getStats runs, the index is what the last
\* completed push or the last completed rebuild left: a rebuild that has
\* read the active users has either not touched the index yet or has
\* installed an entry for every user it read, never only a part of them.
C25_IndexReplacedWhole ==
    /\ heap = whole
    /\ \A i \in ProcIds :
          procs[i].pc = "rebuildFill" => procs[i].filled = 0
    /\ \A i \in ProcIds :
          (procs[i].pc = "done" /\ procs[i].filled > 0) =>
              procs[i].filled = Len(ActiveUsers(procs[i].found))

\* C25 witness: a rebuild that read two active users has installed both
\* entries in one step, while the other call is still between two awaits
C25_Witness ==
    \E i, j \in ProcIds :
        /\ procs[i].pc = "done"
        /\ Len(ActiveUsers(procs[i].found)) = 2
        /\ procs[i].filled = 2
        /\ heap = _rebuildHeap(procs[i].found)
        /\ procs[j].pc \notin {"idle", "done"}

\* C31: after optimizeQueue every stored patient that is waiting or
\* scheduled has a stored score of 10 x priority + 2 x minutes since arrival
\* + bonus at the time of the call and exactly one index entry, carrying
\* that score; every other patient keeps its stored score and has no entry.
C31_OptimizeRescoresActive ==
    LET r == optimizeQueue(users, staff, heap, now)
        formula(u) == 10 * u.priority_level + 2 * (now - u.arrival_time)
                        + (CASE u.visit_type = "emergency" -> 20
                             [] u.visit_type = "regular" -> 0
                             [] u.visit_type = "follow_up" -> 0 - 5)
    IN  /\ r.ok
        /\ \A p \in Stored :
              IF users[p].status \in {"waiting", "scheduled"}
              THEN /\ r.users[p].score = formula(users[p])
                   /\ Entries(r.heap, p) = 1
                   /\ \A i \in 1..Len(r.heap) :
                         r.heap[i].user_id = p => r.heap[i].score = formula(users[p])
              ELSE /\ r.users[p].score = users[p].score
                   /\ Entries(r.heap, p) = 0

\* C31 witness: a minute after the last scoring, an active patient whose
\* stored score is the 9999 of an override and a patient of another status
\* whose stored score is out of date as well
C31_Witness ==
    \E p, q \in Stored :
        /\ users[p].status \in {"waiting", "scheduled"}
        /\ users[p].score = EMERGENCY_SCORE
        /\ optimizeQueue(users, staff, heap, now).users[p].score < EMERGENCY_SCORE
        /\ users[q].status \notin {"waiting", "scheduled"}
        /\ users[q].score # _calculateScore(users[q], now)
        /\ now = 1

\* the entries of a queue list that come before patient p; none when p is
\* not in the list
Preceding(queue, p) ==
    IF \E i \in 1..Len(queue) : queue[i] = p
    THEN SubSeq(queue, 1, (CHOOSE i \in 1..Len(queue) :
                              queue[i] = p /\ \A j \in 1..(i - 1) : queue[j] # p) - 1)
    ELSE <<>>

\* C32: for a waiting or scheduled patient with an assigned staff member,
\* getUserStatus reports as estimated_wait_minutes the sum of
\* estimated_service_time over the entries of that staff member's queue that
\* precede the patient, which is 0 when the patient is first; in the current
\* state and in the state a successful booking of the patient leads to.
C32_AssignedWaitIsSumAhead ==
    \A p \in Stored :
        \A r \in {Result(users, staff, heap, TRUE, "")} \cup Bookings(p) :
            (/\ r.ok
             /\ r.users[p].status \in {"waiting", "scheduled"}
             /\ r.users[p].assigned_staff_id # NoId) =>
                \A t \in LaterTimes :
                    getUserStatus(r.users, r.staff, r.heap, p, t).estimated_wait_minutes =
                        QueueMinutes(Preceding(r.staff[r.users[p].assigned_staff_id].queue, p),
                                     r.users)

\* the time at which a patient entered the active queue: the stamp set by
\* the booking, or the creation time for a patient created as waiting
QueueEntry(u) == IF u.queue_entry_time # NoTime THEN u.queue_entry_time ELSE u.arrival_time

\* C33: for a waiting or scheduled patient with no assigned staff,
\* getUserStatus reports estimated_wait_minutes = max(0, (queue_position - 1)
\* x 15 - minutes since queue entry); the value is never negative and, the
\* index being the same, is not larger at a later time.
C33_FlatWaitDiscounted ==
    \A p \in Stored :
        (users[p].status \in {"waiting", "scheduled"} /\ users[p].assigned_staff_id = NoId) =>
            \A t \in LaterTimes :
                LET reply == getUserStatus(users, staff, heap, p, t)
                    flat == (reply.queue_position - 1) * 15 - (t - QueueEntry(users[p]))
                IN  /\ reply.estimated_wait_minutes = IF flat > 0 THEN flat ELSE 0
                    /\ reply.estimated_wait_minutes >= 0
                    /\ \A later \in LaterTimes :
                          later >= t =>
                              getUserStatus(users, staff, heap, p, later).estimated_wait_minutes
                                  <= reply.estimated_wait_minutes

\* C34: for every stored patient whose status is neither waiting nor
\* scheduled, getUserStatus reports estimated_wait_minutes = 0 and no
\* queue_position, in every reachable state and at any time.
C34_InactiveHasNoWait ==
    \A p \in Stored :
        users[p].status \notin {"waiting", "scheduled"} =>
            \A t \in LaterTimes :
                LET reply == getUserStatus(users, staff, heap, p, t)
                IN  /\ reply.estimated_wait_minutes = 0
                    /\ reply.queue_position = 0

\* C34 witness: a patient being served is queued with its staff member
\* behind another patient, while the index holds another patient
C34_Witness ==
    \E p \in Stored :
        /\ users[p].status = "serving"
        /\ users[p].assigned_staff_id # NoId
        /\ staff[users[p].assigned_staff_id].exists
        /\ WaitAhead(staff[users[p].assigned_staff_id].queue, p, users) > 0
        /\ Len(heap) > 0

\* the calls that end or undo the assignment of a patient
Leavings(us, st, h, p, t) ==
    {markCompleted(us, st, h, p), markNoShow(us, st, h, p),
     cancelUser(us, st, h, p), reassignUser(us, st, h, p, t)}

\* C35: updateStatus(p, serving) on a scheduled patient takes p out of the
\* index and leaves every staff queue and workload, and p's assignment, as
\* they were; completion, no-show, cancellation or reassignment of the
\* patient being served then removes p from the queue it was in and lowers
\* that workload by p's estimated service time, floored at zero.
C35_ServingKeepsQueuePlace ==
    \A p \in Stored :
        users[p].status = "scheduled" =>
            LET r == updateStatus(users, staff, heap, p, "serving")
                s == users[p].assigned_staff_id
            IN  /\ r.ok
                /\ r.users[p].status = "serving"
                /\ r.users[p].assigned_staff_id = s
                /\ Entries(r.heap, p) = 0
                /\ r.staff = staff
                /\ (s # NoId /\ staff[s].exists /\ Occurrences(staff[s].queue, p) > 0) =>
                      \A t \in LaterTimes : \A x \in Leavings(r.users, r.staff, r.heap, p, t) :
                          /\ x.ok
                          /\ Occurrences(x.staff[s].queue, p) = 0
                          /\ x.staff[s].workload =
                                IF staff[s].workload > users[p].estimated_service_time
                                THEN staff[s].workload - users[p].estimated_service_time
                                ELSE 0

\* C35 witness: a scheduled patient queued second with a staff member whose
\* workload counts both patients, and ranked in the index
C35_Witness ==
    \E p \in Stored : \E s \in StoredStaffIds :
        /\ users[p].status = "scheduled"
        /\ users[p].assigned_staff_id = s
        /\ Len(staff[s].queue) = 2
        /\ staff[s].queue[2] = p
        /\ staff[s].workload = 30
        /\ Entries(heap, p) = 1

\* C36: the index init() builds from the stored patients and the index
\* _rebuildHeap() builds from the same stored patients hold the same patient
\* ids, give each id the same score, the stored score of the patient, and
\* rank the ids alike.
C36_InitIsRebuild ==
    \A t \in LaterTimes :
        LET started == init(users, t)
            rebuilt == _rebuildHeap(users)
        IN  /\ {started[i].user_id : i \in 1..Len(started)}
                 = {rebuilt[i].user_id : i \in 1..Len(rebuilt)}
            /\ \A i \in 1..Len(started) :
                  started[i].score = users[started[i].user_id].score
            /\ \A p \in UserIds : Position(started, p) = Position(rebuilt, p)

\* C37: every stored patient with an assigned_staff_id refers to a stored
\* staff member whose queue holds that patient; markCompleted and markNoShow
\* store no assigned staff for the patient, and a completed patient that is
\* booked again without a preferred doctor as a regular visit has none.
C37_AssignedIsQueued ==
    /\ \A p \in Stored :
          users[p].assigned_staff_id # NoId =>
              /\ staff[users[p].assigned_staff_id].exists
              /\ Occurrences(staff[users[p].assigned_staff_id].queue, p) > 0
    /\ \A p \in Stored :
          \A r \in {markCompleted(users, staff, heap, p), markNoShow(users, staff, heap, p)} :
              r.ok => r.users[p].assigned_staff_id = NoId
    /\ \A p \in Stored :
          users[p].status = "completed" =>
              bookAppointment(users, staff, heap, p, "regular", NoId, now)
                  .users[p].assigned_staff_id = NoId

\* the outcomes of the calls on the single patient p that can be made in
\* the current state, at any later time and for any staff id
SinglePatientCalls(p) ==
    UNION {{scheduleUser(users, staff, heap, p, t),
            reassignUser(users, staff, heap, p, t)}
           \cup {assignDoctor(users, staff, heap, p, s, t) : s \in StaffIds} :
           t \in LaterTimes}
      \cup {markCompleted(users, staff, heap, p), markNoShow(users, staff, heap, p),
            cancelUser(users, staff, heap, p)}

\* C38: scheduleUser, assignDoctor, markCompleted, markNoShow, cancelUser
\* and reassignUser on patient p leave the status, score and assigned staff
\* of every other patient as they were, and leave the queue and workload of
\* every staff member that holds p neither before nor after the call as
\* they were, whether the call succeeds or fails.
C38_SinglePatientFrame ==
    \A p \in Stored : \A r \in SinglePatientCalls(p) :
        /\ \A q \in UserIds \ {p} :
              /\ r.users[q].status = users[q].status
              /\ r.users[q].score = users[q].score
              /\ r.users[q].assigned_staff_id = users[q].assigned_staff_id
        /\ \A s \in StaffIds :
              (Occurrences(staff[s].queue, p) = 0 /\ Occurrences(r.staff[s].queue, p) = 0) =>
                  /\ r.staff[s].queue = staff[s].queue
                  /\ r.staff[s].workload = staff[s].workload

\* C38 witness: two scheduled patients, each queued with a staff member of
\* its own
C38_Witness ==
    \E p, q \in Stored : \E s1, s2 \in StoredStaffIds :
        /\ p # q /\ s1 # s2
        /\ users[p].status = "scheduled" /\ users[q].status = "scheduled"
        /\ staff[s1].queue = <<p>> /\ staff[s2].queue = <<q>>
        /\ staff[s2].workload > 0

\* a queue list without the entries of patient q
Without(queue, q) == SelectSeq(queue, LAMBDA id : id # q)

\* the outcomes of the calls that take patient q out of its staff queue
Removals(q) ==
    {markCompleted(users, staff, heap, q), markNoShow(users, staff, heap, q),
     cancelUser(users, staff, heap, q)}
      \cup {reassignUser(users, staff, heap, q, t) : t \in LaterTimes}

\* C39: a call on one patient q leaves the other entries of every staff
\* queue in the order they had, and a newly queued q is the last entry; so
\* for another patient p that is waiting or scheduled and queued with its
\* assigned staff member, taking out a q that was ahead of p lowers the
\* estimated wait of p by the estimated service time of q, and taking out
\* or scheduling a q that was not ahead of p leaves it as it was.
C39_QueueKeepsOrder ==
    \A q \in Stored :
        /\ \A r \in SinglePatientCalls(q) : \A s \in StaffIds :
              /\ Without(r.staff[s].queue, q) = Without(staff[s].queue, q)
              /\ (Occurrences(staff[s].queue, q) = 0 /\ Occurrences(r.staff[s].queue, q) > 0) =>
                    r.staff[s].queue = Append(staff[s].queue, q)
        /\ \A p \in Stored \ {q} :
              LET s == users[p].assigned_staff_id
                  wait(r) == getUserStatus(r.users, r.staff, r.heap, p, now).estimated_wait_minutes
                  before == getUserStatus(users, staff, heap, p, now).estimated_wait_minutes
                  ahead == Occurrences(Preceding(staff[s].queue, p), q) > 0
              IN  (/\ users[p].status \in {"waiting", "scheduled"}
                   /\ s # NoId
                   /\ staff[s].exists
                   /\ Occurrences(staff[s].queue, p) > 0) =>
                      /\ \A r \in Removals(q) :
                            wait(r) = IF ahead
                                      THEN before - users[q].estimated_service_time
                                      ELSE before
                      /\ \A t \in LaterTimes :
                            wait(scheduleUser(users, staff, heap, q, t)) = before

\* the place of the first entry of patient p in a queue list that holds it
Place(queue, p) ==
    CHOOSE i \in 1..Len(queue) : queue[i] = p /\ \A j \in 1..(i - 1) : queue[j] # p

\* C40: when two waiting or scheduled patients are queued with the same
\* staff member and one has the smaller queue_position in the index, that
\* one comes first in the staff member's queue list.
C40_QueueFollowsRank ==
    \A s \in StoredStaffIds : \A p, q \in Stored :
        (/\ p # q
         /\ users[p].status \in {"waiting", "scheduled"}
         /\ users[q].status \in {"waiting", "scheduled"}
         /\ users[p].assigned_staff_id = s /\ users[q].assigned_staff_id = s
         /\ Occurrences(staff[s].queue, p) > 0 /\ Occurrences(staff[s].queue, q) > 0
         /\ QueuePosition(p) > 0
         /\ QueuePosition(p) < QueuePosition(q)) =>
            Place(staff[s].queue, p) < Place(staff[s].queue, q)

====
